---- MODULE Spec2Model ----
(***************************************************************************)
(* Model of the vision service backend (src/backend/vision_service):       *)
(* process-wide startup of the model adapters, and the per-connection      *)
(* message loop of the /ws/vision websocket endpoint.                      *)
(*                                                                         *)
(* The coroutines hand_tracker.detect, yolo_detector.detect and            *)
(* pose_estimator.detect contain no await, so the handling of one inbound  *)
(* message runs without suspension from the return of receive_text to the  *)
(* send: one action per inbound message.  A transport failure of a send    *)
(* is outside the model; a client disconnect is seen by receive_text.      *)
(***************************************************************************)
EXTENDS Integers, Sequences, FiniteSets, TLC

\* ------------------------------------------------------------------ bounds
NumSessions == 2
MaxEvents == 4
\* Landmark depths range over -MaxDepth..MaxDepth tenths.
MaxDepth == 6
\* cleanup() calls made on the components besides those of shutdown_event.
MaxCleanupCalls == 2

Sessions == 1..NumSessions

\* ------------------------------------------------------------ value space
\* Python None / JSON null; an optional value v that is present is <<v>>.
None == <<>>
Some(v) == <<v>>

FlagNames == {"detectObjects", "detectPose"}
\* A JSON flag: key missing, true, or false.
FlagValues == {"absent", "true", "false"}
\* bool(message.get(flag, False))
Truthy(v) == v = "true"

NoFlags == [f \in FlagNames |-> "absent"]

\* Image payloads that decode; what each one shows decides what the
\* (opaque) perception models return for it.
Images == {"blank", "hand", "scene"}
\* A payload cv2.imdecode rejects, and the missing / empty data field.
Corrupt == "corrupt"
NoData == ""

\* ---------------------------------------------------------------- messages
\* One event of the transport: a text frame (whose text json.loads parses
\* to an object or not) or the disconnect of the client.
Event(event, json, type, data, timestamp, detectObjects, detectPose, config) ==
    [event |-> event, json |-> json, type |-> type, data |-> data,
     timestamp |-> timestamp, detectObjects |-> detectObjects,
     detectPose |-> detectPose, config |-> config]

Frame(data, timestamp, detectObjects, detectPose) ==
    Event("text", TRUE, "frame", data, timestamp, detectObjects, detectPose, NoFlags)
Ping(timestamp) ==
    Event("text", TRUE, "ping", NoData, timestamp, "absent", "absent", NoFlags)
Config(config) ==
    Event("text", TRUE, "config", NoData, None, "absent", "absent", config)
Unknown == Event("text", TRUE, "other", NoData, None, "absent", "absent", NoFlags)
\* An object without the key "type": message.get("type") is None.
Untyped == Event("text", TRUE, "absent", NoData, None, "absent", "absent", NoFlags)
Garbage == Event("text", FALSE, "", NoData, None, "absent", "absent", NoFlags)
Disconnect == Event("disconnect", FALSE, "", NoData, None, "absent", "absent", NoFlags)

\* The texts a client sends in this model.
ClientMessages ==
    { Frame(NoData, Some(1), "absent", "absent"),
      Frame(Corrupt, Some(1), "absent", "absent"),
      Frame("blank", Some(1), "true", "absent"),
      Frame("hand", Some(1), "absent", "absent"),
      Frame("scene", Some(2), "true", "true"),
      Ping(Some(2)),
      Config([NoFlags EXCEPT !["detectObjects"] = "true"]),
      Config([NoFlags EXCEPT !["detectPose"] = "true"]),
      Unknown,
      Untyped,
      Garbage }

\* The perception models, by the name of their global.
Models == {"hand", "yolo", "pose"}

\* ------------------------------------------------------- perception models
\* Number of landmarks MediaPipe reports for one hand.
FullHand == 21

RECURSIVE SumOf(_, _)
\* sum(l[k] for l in landmarks)
SumOf(landmarks, k) ==
    IF landmarks = <<>> THEN 0
    ELSE Head(landmarks)[k] + SumOf(Tail(landmarks), k)

MinOf(S) == CHOOSE m \in S : \A v \in S : m <= v
MaxOf(S) == CHOOSE m \in S : \A v \in S : m >= v

\* Landmark coordinates are fixed-point numbers in tenths: 5 stands for 0.5.
\* What MediaPipe sees in each image: per hand, its label and its landmarks.
\* "hand" shows a person holding up one hand, centred at (0.5, 0.5) with
\* depth 0; "scene" a person with two hands, the first one up left and close
\* to the camera, the second one far away; "blank" shows nothing.
SeenHands(image) ==
    CASE image = "hand" ->
           << [label |-> "Right",
               landmark |-> [i \in 1..FullHand |-> <<4 + (i % 3), 5, 0>>]] >>
      [] image = "scene" ->
           << [label |-> "Left",
               landmark |-> [i \in 1..FullHand |-> <<2, 3 + (i % 3), -6>>]],
              [label |-> "Right",
               landmark |-> [i \in 1..FullHand |-> <<8, 7, 6>>]] >>
      [] OTHER -> << >>

\* HandTracker.detect: one detection per hand, its landmarks and the
\* bounding box spanned by their x and y extent.
HandTracker_detect(image) ==
    LET seen == SeenHands(image)
        Detection(h) ==
            LET landmarks == h.landmark
                xs == {landmarks[i][1] : i \in 1..Len(landmarks)}
                ys == {landmarks[i][2] : i \in 1..Len(landmarks)}
            IN  [landmarks |-> landmarks,
                 handedness |-> h.label,
                 confidence |-> 9,
                 boundingBox |-> [x |-> MinOf(xs), y |-> MinOf(ys),
                                  width |-> MaxOf(xs) - MinOf(xs),
                                  height |-> MaxOf(ys) - MinOf(ys)]]
    IN  [i \in 1..Len(seen) |-> Detection(seen[i])]

\* YOLODetector.detect: the boxes found, in pixels.
YOLODetector_detect(image) ==
    IF image \in {"hand", "scene"}
    THEN << [class |-> "person", classId |-> 0, confidence |-> 8,
             boundingBox |-> [x |-> 100, y |-> 40, width |-> 200, height |-> 300]] >>
    ELSE << >>

\* PoseEstimator.detect: None when no body is found, else the pose data.
PoseEstimator_detect(image) ==
    IF image \in {"hand", "scene"}
    THEN Some([headPosition |-> [x |-> 5, y |-> 2],
               bodyCenter |-> [x |-> 5, y |-> 4]])
    ELSE None

\* --------------------------------------------------------------- server.py
\* decode_image: the decoded image, or an exception that is logged and
\* re-raised to the caller.
decode_image(base64_image) ==
    IF base64_image \in Images
    THEN [raised |-> FALSE, image |-> base64_image]
    ELSE [raised |-> TRUE, image |-> base64_image]

\* clamp that lets the value through.
clamp_open(raw, den) == raw

\* max(0, min(1, x)) on a number raw / den.
clamp(raw, den) == IF raw < 0 THEN 0 ELSE IF raw > den THEN den ELSE raw

\* detect_gesture that does not look at the landmark count.
detect_gesture_any(n, boost) == IF boost THEN "BOOST" ELSE "IDLE"

\* The gesture rule: IDLE unless the hand has all its landmarks, and then
\* BOOST when the thrust is above 0.7.
detect_gesture(n, boost) ==
    IF n >= FullHand THEN (IF boost THEN "BOOST" ELSE "IDLE") ELSE "IDLE"

\* calculate_control_signal.  A number is the pair <<numerator, denominator>>
\* over the denominator 10 * len(landmarks), the unit of the landmark sums.
calculate_control_signal(hand) ==
    LET landmarks == hand.landmarks
        n == Len(landmarks)
        den == 10 * n
        sum_x == SumOf(landmarks, 1)
        sum_y == SumOf(landmarks, 2)
        sum_z == IF Len(landmarks[1]) > 2 THEN SumOf(landmarks, 3) ELSE 0
        \* 1 - (avg_z + 0.5), times den
        raw == den - (sum_z + 5 * n)
        thrust == clamp(raw, den)
        boost == 10 * thrust > 7 * den
    IN  [direction |-> [x |-> <<2 * sum_x - den, den>>,
                        y |-> <<den - 2 * sum_y, den>>],
         thrust |-> <<thrust, den>>,
         action |-> detect_gesture(n, boost)]

VARIABLES
    phase,             \* "created" | "ready" (serving) | "startup_failed"
    startup_raised,    \* the constructor whose exception startup_event re-raised
    vision_processor,  \* the module globals: "None" | "loaded"
    hand_tracker,
    yolo_detector,
    pose_estimator,
    state,             \* per session: "Connecting" | "Open" | "Closing" | "Faulted"
    inbox,             \* per session: events the transport holds for receive_text
    outbox,            \* per session: the JSON bodies passed to send_json, in order
    closeCalled,       \* per session: websocket.close() was called by the handler
    log,               \* per session: history, one entry per event taken by receive_text
    nevents,           \* number of client events (connect, text, disconnect) so far
    use_cuda,          \* device == "cuda" and torch.cuda.is_available()
    cleanups,          \* history: the cleanup() calls made, in order
    released,          \* per component: times its underlying resource was released
    probe,             \* a hand detection and the control signal derived from it
    health             \* the last response of the health endpoint, with its phase

vars == <<phase, startup_raised, vision_processor, hand_tracker, yolo_detector, pose_estimator,
          state, inbox, outbox, closeCalled, log, nevents, use_cuda, cleanups, released, probe,
          health>>

\* The variables of the session handler.
sessions == <<state, inbox, outbox, closeCalled, log, nevents>>

\* The variables of the release of the components.
lifecycle == <<use_cuda, cleanups, released, health>>

globals == <<phase, startup_raised, vision_processor, hand_tracker, yolo_detector, pose_estimator>>

\* What the handling of one event did: the exception that ended the loop
\* ("none" when the loop goes on), the calls made, and the bodies sent.
Outcome(raised, calls, sent) == [raised |-> raised, calls |-> calls, sent |-> sent]

\* The order in which startup_event constructs the globals.
StartupOrder == <<"vision_processor", "hand_tracker", "yolo_detector", "pose_estimator">>

\* The components shutdown_event releases.
Components == {StartupOrder[i] : i \in 1..Len(StartupOrder)}

TypeOK ==
    /\ phase \in {"created", "ready", "startup_failed", "stopped"}
    /\ startup_raised \in {"none"} \cup {StartupOrder[i] : i \in 1..Len(StartupOrder)}
    /\ {vision_processor, hand_tracker, yolo_detector, pose_estimator}
           \subseteq {"None", "loaded"}
    /\ state \in [Sessions -> {"Connecting", "Open", "Closing", "Faulted"}]
    /\ closeCalled \in [Sessions -> BOOLEAN]
    /\ \A s \in Sessions :
          /\ \A i \in 1..Len(inbox[s]) : inbox[s][i] \in ClientMessages \cup {Disconnect}
          /\ \A i \in 1..Len(outbox[s]) :
                outbox[s][i].type \in {"detection", "pong", "config_ack"}
    /\ nevents \in 0..MaxEvents
    /\ use_cuda \in BOOLEAN
    /\ \A i \in 1..Len(cleanups) :
          /\ cleanups[i].component \in Components
          /\ cleanups[i].by \in {"shutdown", "direct"}
          /\ cleanups[i].raised \in BOOLEAN
          /\ cleanups[i].freed \in BOOLEAN
    /\ released \in [Components -> Nat]
    /\ probe.control = None \/ Len(probe.control) = 1
    /\ health = None
       \/ /\ health[1].at \in {"ready", "startup_failed", "stopped"}
          /\ \A m \in DOMAIN health[1].response.models_loaded :
                health[1].response.models_loaded[m] \in BOOLEAN

\* No hand detection under study.
NoProbe == [hand |-> [landmarks |-> << >>], control |-> None]

\* The module as imported: the globals are None and nothing is connected.
Imported ==
    /\ phase = "created"
    /\ startup_raised = "none"
    /\ vision_processor = "None"
    /\ hand_tracker = "None"
    /\ yolo_detector = "None"
    /\ pose_estimator = "None"
    /\ state = [s \in Sessions |-> "Connecting"]
    /\ inbox = [s \in Sessions |-> << >>]
    /\ outbox = [s \in Sessions |-> << >>]
    /\ closeCalled = [s \in Sessions |-> FALSE]
    /\ log = [s \in Sessions |-> << >>]
    /\ nevents = 0
    /\ cleanups = << >>
    /\ released = [c \in Components |-> 0]
    /\ health = None

\* A host without CUDA.
Init ==
    /\ Imported
    /\ use_cuda = FALSE
    /\ probe = NoProbe

\* ------------------------------------------------------------ startup_event
\* The constructors run in the order of the source; the first one that
\* raises leaves the later globals unassigned and the exception is
\* re-raised out of the startup hook.  failed names that constructor
\* ("none": all four succeed).

Position(name) == CHOOSE i \in 1..Len(StartupOrder) : StartupOrder[i] = name

startup_event(failed) ==
    LET reached(name) ==
            failed = "none" \/ Position(name) < Position(failed)
        value(name) == IF reached(name) THEN "loaded" ELSE "None"
    IN  [vision_processor |-> value("vision_processor"),
         hand_tracker |-> value("hand_tracker"),
         yolo_detector |-> value("yolo_detector"),
         pose_estimator |-> value("pose_estimator"),
         phase |-> IF failed = "none" THEN "ready" ELSE "startup_failed"]

\* The server runs the startup hook once, before it accepts a connection.
Startup ==
    /\ phase = "created"
    /\ \E failed \in {"none"} \cup {StartupOrder[i] : i \in 1..Len(StartupOrder)} :
          LET r == startup_event(failed)
          IN  /\ vision_processor' = r.vision_processor
              /\ hand_tracker' = r.hand_tracker
              /\ yolo_detector' = r.yolo_detector
              /\ pose_estimator' = r.pose_estimator
              /\ phase' = r.phase
              /\ startup_raised' = failed
    /\ UNCHANGED <<sessions, lifecycle, probe>>

\* --------------------------------------------------------- websocket_vision
\* A host that dispatches no startup event (lifespan off) serves the
\* application with the globals as the module defines them, all None.
ServeUnstarted ==
    /\ phase = "created"
    /\ phase' = "ready"
    /\ UNCHANGED <<startup_raised, vision_processor, hand_tracker, yolo_detector,
                   pose_estimator, sessions, lifecycle, probe>>

\* websocket.accept().  A server whose startup failed serves nothing.
\* Sessions are numbered in the order in which they are accepted.
Accept(s) ==
    /\ phase = "ready"
    /\ state[s] = "Connecting"
    /\ \A t \in Sessions : t < s => state[t] # "Connecting"
    /\ nevents < MaxEvents
    /\ state' = [state EXCEPT ![s] = "Open"]
    /\ nevents' = nevents + 1
    /\ UNCHANGED <<globals, inbox, outbox, closeCalled, log, lifecycle, probe>>

\* The client of an open connection sends a text.
ClientSend(s) ==
    /\ state[s] = "Open"
    /\ nevents < MaxEvents
    /\ Disconnect \notin {inbox[s][i] : i \in 1..Len(inbox[s])}
    /\ \E m \in ClientMessages : inbox' = [inbox EXCEPT ![s] = Append(@, m)]
    /\ nevents' = nevents + 1
    /\ UNCHANGED <<globals, state, outbox, closeCalled, log, lifecycle, probe>>

\* The client goes away.
ClientDisconnect(s) ==
    /\ state[s] = "Open"
    /\ Disconnect \notin {inbox[s][i] : i \in 1..Len(inbox[s])}
    /\ nevents < MaxEvents
    /\ inbox' = [inbox EXCEPT ![s] = Append(@, Disconnect)]
    /\ nevents' = nevents + 1
    /\ UNCHANGED <<globals, state, outbox, closeCalled, log, lifecycle, probe>>

\* run_yolo that does not read the flag of the message.
run_yolo_always(message) == yolo_detector # "None"

\* run_pose reading the flag of the Object Model.
run_pose_by_objects(message) ==
    pose_estimator # "None" /\ Truthy(message.detectObjects)

\* run_yolo without the test of the global.
run_yolo_unguarded(message) == Truthy(message.detectObjects)

\* The guards of the three detect calls.
run_hand == hand_tracker # "None"
run_yolo(message) == yolo_detector # "None" /\ Truthy(message.detectObjects)
run_pose(message) == pose_estimator # "None" /\ Truthy(message.detectPose)

\* control_of deriving a signal only from a second hand.
control_of_second(hands) ==
    IF Len(hands) > 1 THEN Some(calculate_control_signal(hands[1])) ELSE None

\* The control signal of the primary hand, when there is a hand.
control_of(hands) ==
    IF hands # << >> THEN Some(calculate_control_signal(hands[1])) ELSE None

\* send_results that sends only a result with a hand in it.
send_results_with_hands(results) ==
    IF results.hands # << >> THEN <<results>> ELSE << >>

\* websocket.send_json(results): the one body a processed frame sends.
send_results(results) == <<results>>

\* The "frame" branch.  fails: the models whose detect raises if it is
\* called for this frame.
process_frame(message, fails) ==
    LET frame_data == message.data
        decoded == decode_image(frame_data)
        image == decoded.image
        hand_called == run_hand
        yolo_called == run_yolo(message)
        pose_called == run_pose(message)
        \* a detect call raises when the model fails, or when the global is None
        hand_raised == hand_called /\ ("hand" \in fails \/ hand_tracker = "None")
        \* ... and YOLODetector.detect reads self.model, which cleanup deletes
        yolo_raised == yolo_called /\ \/ "yolo" \in fails
                                      \/ yolo_detector = "None"
                                      \/ released["yolo_detector"] > 0
        pose_raised == pose_called /\ ("pose" \in fails \/ pose_estimator = "None")
        hands == IF hand_called THEN HandTracker_detect(image) ELSE << >>
        objects == IF yolo_called THEN YOLODetector_detect(image) ELSE << >>
        pose == IF pose_called THEN PoseEstimator_detect(image) ELSE None
        control == control_of(hands)
        results == [type |-> "detection", timestamp |-> message.timestamp,
                    hands |-> hands, objects |-> objects, pose |-> pose,
                    control |-> control, config |-> NoFlags]
        hand_call == IF hand_called THEN <<"hand">> ELSE << >>
        yolo_call == IF yolo_called THEN <<"yolo">> ELSE << >>
        pose_call == IF pose_called THEN <<"pose">> ELSE << >>
        control_call == IF hands # << >> THEN <<"control">> ELSE << >>
    IN  IF frame_data = NoData THEN Outcome("none", << >>, << >>)
        ELSE IF decoded.raised THEN Outcome("decode", <<"decode">>, << >>)
        ELSE IF hand_raised THEN Outcome("hand", <<"decode">> \o hand_call, << >>)
        ELSE IF yolo_raised
             THEN Outcome("yolo", <<"decode">> \o hand_call \o yolo_call, << >>)
        ELSE IF pose_raised
             THEN Outcome("pose", <<"decode">> \o hand_call \o yolo_call \o pose_call,
                          << >>)
        ELSE Outcome("none",
                     <<"decode">> \o hand_call \o yolo_call \o pose_call \o control_call,
                     send_results(results))

\* handle_ping answering without the timestamp of the ping.
handle_ping_untimed(message) ==
    Outcome("none", << >>,
            << [type |-> "pong", timestamp |-> None,
                hands |-> << >>, objects |-> << >>, pose |-> None,
                control |-> None, config |-> NoFlags] >>)

\* The "ping" branch.
handle_ping(message) ==
    Outcome("none", << >>,
            << [type |-> "pong", timestamp |-> message.timestamp,
                hands |-> << >>, objects |-> << >>, pose |-> None,
                control |-> None, config |-> NoFlags] >>)

\* The "config" branch: the config of the message is sent back.
handle_config(message) ==
    Outcome("none", << >>,
            << [type |-> "config_ack", timestamp |-> None,
                hands |-> << >>, objects |-> << >>, pose |-> None,
                control |-> None, config |-> message.config] >>)

\* The other sessions that have left Open by now.
Gone(s) == {t \in Sessions \ {s} : state[t] \in {"Closing", "Faulted"}}

\* Handled with an exception of one session ending every session.
Handled_fatal(s, r) ==
    /\ inbox' = [inbox EXCEPT ![s] = Tail(@)]
    /\ outbox' = [outbox EXCEPT ![s] = @ \o r.sent]
    /\ state' = IF r.raised = "none" THEN state
                ELSE IF r.raised = "disconnect"
                     THEN [state EXCEPT ![s] = "Closing"]
                ELSE [t \in Sessions |->
                         IF state[t] = "Open" THEN "Faulted" ELSE state[t]]
    /\ closeCalled' = [closeCalled EXCEPT ![s] =
                          r.raised \notin {"none", "disconnect"}]
    /\ log' = [log EXCEPT ![s] =
                  Append(@, [message |-> Head(inbox[s]), raised |-> r.raised,
                             calls |-> r.calls, first |-> Len(outbox[s]),
                             replies |-> Len(r.sent), gone |-> Gone(s)])]
    /\ UNCHANGED <<globals, nevents, lifecycle, probe>>

\* Handled with the bodies put in front of those sent before.
Handled_front(s, r) ==
    /\ inbox' = [inbox EXCEPT ![s] = Tail(@)]
    /\ outbox' = [outbox EXCEPT ![s] = r.sent \o @]
    /\ state' = [state EXCEPT ![s] =
                    IF r.raised = "none" THEN "Open"
                    ELSE IF r.raised = "disconnect" THEN "Closing"
                    ELSE "Faulted"]
    /\ closeCalled' = [closeCalled EXCEPT ![s] =
                          r.raised \notin {"none", "disconnect"}]
    /\ log' = [log EXCEPT ![s] =
                  Append(@, [message |-> Head(inbox[s]), raised |-> r.raised,
                             calls |-> r.calls, first |-> Len(outbox[s]),
                             replies |-> Len(r.sent), gone |-> Gone(s)])]
    /\ UNCHANGED <<globals, nevents, lifecycle, probe>>

\* The effect of one pass of the loop on the session: the sends, and on
\* an exception the except clause it reaches.
Handled(s, r) ==
    /\ inbox' = [inbox EXCEPT ![s] = Tail(@)]
    /\ outbox' = [outbox EXCEPT ![s] = @ \o r.sent]
    /\ state' = [state EXCEPT ![s] =
                    IF r.raised = "none" THEN "Open"
                    ELSE IF r.raised = "disconnect" THEN "Closing"
                    ELSE "Faulted"]
    /\ closeCalled' = [closeCalled EXCEPT ![s] =
                          r.raised \notin {"none", "disconnect"}]
    /\ log' = [log EXCEPT ![s] =
                  Append(@, [message |-> Head(inbox[s]), raised |-> r.raised,
                             calls |-> r.calls, first |-> Len(outbox[s]),
                             replies |-> Len(r.sent), gone |-> Gone(s)])]
    /\ UNCHANGED <<globals, nevents, lifecycle, probe>>

Receives(s) == state[s] = "Open" /\ inbox[s] # << >>

\* frame_of that works on the frame another session has sent, if there is one.
frame_of_any(s) ==
    LET pending == {t \in Sessions \ {s} :
                       /\ inbox[t] # << >>
                       /\ Head(inbox[t]).event = "text"
                       /\ Head(inbox[t]).json
                       /\ Head(inbox[t]).type = "frame"}
    IN  IF pending = {} THEN Head(inbox[s])
        ELSE Head(inbox[CHOOSE t \in pending : TRUE])

\* The frame the handler of s works on: message, frame_data and image are
\* locals of the coroutine of s, taken from its own receive_text.
frame_of(s) == Head(inbox[s])

HandleFrame(s) ==
    /\ Receives(s)
    /\ LET message == Head(inbox[s])
       IN  /\ message.event = "text" /\ message.json /\ message.type = "frame"
           /\ \E fails \in SUBSET Models : Handled(s, process_frame(frame_of(s), fails))

HandlePing(s) ==
    /\ Receives(s)
    /\ LET message == Head(inbox[s])
       IN  /\ message.event = "text" /\ message.json /\ message.type = "ping"
           /\ Handled(s, handle_ping(message))

HandleConfig(s) ==
    /\ Receives(s)
    /\ LET message == Head(inbox[s])
       IN  /\ message.event = "text" /\ message.json /\ message.type = "config"
           /\ Handled(s, handle_config(message))

\* handle_other that answers with a pong.
handle_other_pong(message) ==
    Outcome("none", << >>, << [type |-> "pong", timestamp |-> message.timestamp,
                               hands |-> << >>, objects |-> << >>, pose |-> None,
                               control |-> None, config |-> NoFlags] >>)

\* No branch of the if / elif chain matches: the loop goes back to receive_text.
handle_other(message) == Outcome("none", << >>, << >>)

\* A message of no known type: no branch is taken.
HandleOther(s) ==
    /\ Receives(s)
    /\ LET message == Head(inbox[s])
       IN  /\ message.event = "text" /\ message.json
           /\ message.type \notin {"frame", "ping", "config"}
           /\ Handled(s, handle_other(message))

\* json.loads raises, or yields no object: except Exception.
HandleGarbage(s) ==
    /\ Receives(s)
    /\ LET message == Head(inbox[s])
       IN  /\ message.event = "text" /\ ~message.json
           /\ Handled(s, Outcome("envelope", << >>, << >>))

\* receive_text raises WebSocketDisconnect.
HandleDisconnect(s) ==
    /\ Receives(s)
    /\ Head(inbox[s]).event = "disconnect"
    /\ Handled(s, Outcome("disconnect", << >>, << >>))

Next ==
    \/ Startup
    \/ ServeUnstarted
    \/ \E s \in Sessions : Accept(s)
    \/ \E s \in Sessions : ClientSend(s)
    \/ \E s \in Sessions : ClientDisconnect(s)
    \/ \E s \in Sessions : HandleFrame(s)
    \/ \E s \in Sessions : HandlePing(s)
    \/ \E s \in Sessions : HandleConfig(s)
    \/ \E s \in Sessions : HandleOther(s)
    \/ \E s \in Sessions : HandleGarbage(s)
    \/ \E s \in Sessions : HandleDisconnect(s)

Spec == Init /\ [][Next]_vars

\* ------------------------------------------------------------------ history
Entries(s) == 1..Len(log[s])

IsText(message, type) ==
    message.event = "text" /\ message.json /\ message.type = type

\* The body sent first in answer to entry i of the log of s.
Reply(s, i) == outbox[s][log[s][i].first + 1]

\* Entry i is the event handled last by s, and the loop goes on after it.
StillOpenAfter(s, i) ==
    i = Len(log[s]) => state[s] = "Open" /\ ~closeCalled[s]

RECURSIVE SumReplies(_, _)
\* The number of bodies sent in answer to the first i events of s.
SumReplies(s, i) ==
    IF i = 0 THEN 0 ELSE log[s][i].replies + SumReplies(s, i - 1)

\* A later value of a flag overrides an earlier one, other flags are kept.
Merge(old, new) ==
    [f \in FlagNames |-> IF new[f] # "absent" THEN new[f] ELSE old[f]]

RECURSIVE EffectiveConfig(_, _)
\* The merge of the flags of all config messages among the first i events of s.
EffectiveConfig(s, i) ==
    IF i = 0 THEN NoFlags
    ELSE IF IsText(log[s][i].message, "config")
         THEN Merge(EffectiveConfig(s, i - 1), log[s][i].message.config)
         ELSE EffectiveConfig(s, i - 1)

\* ------------------------------------------------------------------- claims

\* C1: a frame whose image payload fails to decode is dropped and nothing
\* else happens: no message is sent for it, and the session is still Open
\* (not Faulted, not closed) once it has been handled.
C1_DecodeFailureDropsFrameOnly ==
    \A s \in Sessions : \A i \in Entries(s) :
        LET e == log[s][i]
        IN  (IsText(e.message, "frame") /\ e.message.data \notin Images \cup {NoData})
            => /\ e.replies = 0
               /\ e.raised = "none"
               /\ StillOpenAfter(s, i)

\* C2: when the detect call of one model fails for a frame, a detection
\* message is still sent, with the empty variant in that model's slot, the
\* remaining enabled models are still invoked, and the session stays Open.
C2_DetectFailureEmptiesSlot ==
    \A s \in Sessions : \A i \in Entries(s) :
        LET e == log[s][i]
            called == {e.calls[k] : k \in 1..Len(e.calls)}
        IN  (IsText(e.message, "frame") /\ e.raised \in Models)
            => /\ e.replies = 1
               /\ Reply(s, i).type = "detection"
               /\ e.raised = "hand" => Reply(s, i).hands = << >>
               /\ e.raised = "yolo" => Reply(s, i).objects = << >>
               /\ e.raised = "pose" => Reply(s, i).pose = None
               /\ run_yolo(e.message) => "yolo" \in called
               /\ run_pose(e.message) => "pose" \in called
               /\ StillOpenAfter(s, i)

\* C3: when the constructor of one model adapter fails at startup, startup
\* still completes and the backend is ready; the failed model is absent and
\* every other model is loaded.
C3_StartupToleratesInitFailure ==
    LET adapter == [hand_tracker |-> hand_tracker,
                    yolo_detector |-> yolo_detector,
                    pose_estimator |-> pose_estimator]
    IN  startup_raised \in DOMAIN adapter
        => /\ phase = "ready"
           /\ \A name \in DOMAIN adapter :
                 adapter[name] = IF name = startup_raised THEN "None" ELSE "loaded"

\* C4: every ping taken by an Open session is answered by exactly one pong
\* that carries the timestamp of the ping, and neither the image decoder
\* nor any model is called while it is handled.
C4_PingAnsweredByOnePong ==
    \A s \in Sessions :
        /\ \A i \in Entries(s) :
              LET e == log[s][i]
              IN  IsText(e.message, "ping")
                  => /\ e.raised = "none"
                     /\ e.replies = 1
                     /\ Reply(s, i).type = "pong"
                     /\ Reply(s, i).timestamp = e.message.timestamp
                     /\ e.calls = << >>
        /\ Cardinality({k \in 1..Len(outbox[s]) : outbox[s][k].type = "pong"})
             = Cardinality({i \in Entries(s) : IsText(log[s][i].message, "ping")})

\* A ping has been answered while all models were loaded.
C4_Witness ==
    \E s \in Sessions : \E i \in Entries(s) :
        /\ IsText(log[s][i].message, "ping")
        /\ hand_tracker = "loaded" /\ yolo_detector = "loaded"
        /\ pose_estimator = "loaded"
        /\ Reply(s, i).type = "pong"

\* C5: every config message is acknowledged by exactly one config_ack whose
\* config is the merge of all flags supplied so far in the session.
C5_AckCarriesMergedConfig ==
    \A s \in Sessions : \A i \in Entries(s) :
        LET e == log[s][i]
        IN  IsText(e.message, "config")
            => /\ e.replies = 1
               /\ Reply(s, i).type = "config_ack"
               /\ Reply(s, i).config = EffectiveConfig(s, i)

\* C6: once a config message has enabled detectObjects in a session, every
\* frame processed later in that session has the Object Model invoked when
\* that adapter is loaded, whatever flags the frame itself carries.
C6_StoredConfigEnablesObjects ==
    \A s \in Sessions : \A i \in Entries(s) :
        LET e == log[s][i]
            called == {e.calls[k] : k \in 1..Len(e.calls)}
        IN  (/\ IsText(e.message, "frame")
             /\ e.message.data \in Images
             /\ e.raised = "none"
             /\ yolo_detector = "loaded"
             /\ Truthy(EffectiveConfig(s, i - 1)["detectObjects"]))
            => "yolo" \in called

\* C7: in every detection message sent, control is non-null if and only if
\* the hands list holds at least one hand.
C7_ControlIffHands ==
    \A s \in Sessions : \A k \in 1..Len(outbox[s]) :
        outbox[s][k].type = "detection"
        => (outbox[s][k].control # None <=> outbox[s][k].hands # << >>)

\* One session got a detection with a hand and a control signal, and one
\* with neither although the Hand Model ran.
C7_Witness ==
    \E s \in Sessions : \E k1, k2 \in 1..Len(outbox[s]) :
        /\ hand_tracker = "loaded"
        /\ outbox[s][k1].type = "detection"
        /\ outbox[s][k1].hands # << >> /\ outbox[s][k1].control # None
        /\ outbox[s][k2].type = "detection"
        /\ outbox[s][k2].hands = << >> /\ outbox[s][k2].control = None

\* A body is the answer to a message.
Answers(body, message) ==
    \/ /\ IsText(message, "frame")
       /\ body.type = "detection" /\ body.timestamp = message.timestamp
    \/ /\ IsText(message, "ping")
       /\ body.type = "pong" /\ body.timestamp = message.timestamp
    \/ /\ IsText(message, "config")
       /\ body.type = "config_ack" /\ body.config = message.config

\* C8: within a session the bodies are sent in the order of the messages
\* that caused them: the answer to a message stands in the outbox after the
\* answers to all earlier messages and before those to all later ones.
C8_RepliesInMessageOrder ==
    \A s \in Sessions :
        /\ Len(outbox[s]) = SumReplies(s, Len(log[s]))
        /\ \A i \in Entries(s) :
              /\ log[s][i].first = SumReplies(s, i - 1)
              /\ \A k \in (log[s][i].first + 1)..(log[s][i].first + log[s][i].replies) :
                    Answers(outbox[s][k], log[s][i].message)

\* frame, ping, frame: the pong stands between the two detections.
C8_Witness ==
    \E s \in Sessions :
        /\ Len(log[s]) = 3
        /\ IsText(log[s][1].message, "frame")
        /\ IsText(log[s][2].message, "ping")
        /\ IsText(log[s][3].message, "frame")
        /\ Len(outbox[s]) = 3
        /\ outbox[s][1].type = "detection"
        /\ outbox[s][2].type = "pong"
        /\ outbox[s][3].type = "detection"
        /\ outbox[s][1] # outbox[s][3]

\* C9: with the Object Model adapter absent, every detection sent has
\* objects = [], the Object Model is never called and never the cause of a
\* fault, whatever the detectObjects flag; a frame that decodes and whose
\* other models do not fail yields its detection message.
C9_AbsentObjectModel ==
    yolo_detector = "None"
    => \A s \in Sessions :
          /\ \A k \in 1..Len(outbox[s]) :
                outbox[s][k].type = "detection" => outbox[s][k].objects = << >>
          /\ \A i \in Entries(s) :
                LET e == log[s][i]
                IN  IsText(e.message, "frame")
                    => /\ \A k \in 1..Len(e.calls) : e.calls[k] # "yolo"
                       /\ e.raised # "yolo"
                       /\ (e.message.data \in Images /\ e.raised \notin {"hand", "pose"})
                          => /\ e.raised = "none"
                             /\ e.replies = 1
                             /\ Reply(s, i).type = "detection"
                             /\ StillOpenAfter(s, i)

\* A frame that asks for objects was answered while the adapter was absent.
C9_Witness ==
    /\ yolo_detector = "None"
    /\ \E s \in Sessions : \E i \in Entries(s) :
          /\ IsText(log[s][i].message, "frame")
          /\ Truthy(log[s][i].message.detectObjects)
          /\ log[s][i].message.data \in Images
          /\ log[s][i].replies = 1
          /\ Reply(s, i).objects = << >>

\* The ways out of Open that the session protocol allows: the transport
\* disconnects, the envelope does not decode, an unexpected internal
\* exception.  A decode or detection failure of one frame is none of them.
LeaveCauses == {"disconnect", "envelope", "internal"}

\* C10: a session leaves Open only by one of LeaveCauses; on an exception
\* the connection is force-closed; the state reached is terminal: no
\* message is taken and no body is sent after the event that left Open.
C10_LeavesOpenOnlyByProtocolFault ==
    \A s \in Sessions :
        /\ state[s] \in {"Closing", "Faulted"}
           => /\ log[s] # << >>
              /\ log[s][Len(log[s])].raised \in LeaveCauses
        /\ \A i \in Entries(s) :
              LET e == log[s][i]
              IN  /\ e.raised \notin {"none", "disconnect"}
                     => state[s] = "Faulted" /\ closeCalled[s]
                  /\ e.raised = "disconnect" => state[s] = "Closing"
                  /\ e.raised # "none"
                     => i = Len(log[s]) /\ Len(outbox[s]) = e.first + e.replies

\* The exceptions that are a fault of the session protocol: an envelope
\* that does not decode, and any exception of the handling of a message.
ProtocolFaults == {"envelope", "decode", "hand", "yolo", "pose"}

\* C11: a malformed envelope or internal error in one session terminates
\* only that session.  A session is terminated only by an event of its own;
\* a message that another session takes after the fault is handled as its
\* own content demands (a ping is answered by its pong, a config by its
\* ack, a frame by its detection unless its own decode or detect calls
\* fail); and the adapters startup loaded stay loaded.
C11_FaultEndsOnlyItsSession ==
    /\ \A s \in Sessions :
          /\ state[s] \in {"Closing", "Faulted"}
             => log[s] # << >> /\ log[s][Len(log[s])].raised # "none"
          /\ \A i \in Entries(s) :
                LET e == log[s][i]
                IN  (\E t \in e.gone : log[t][Len(log[t])].raised \in ProtocolFaults)
                    => /\ IsText(e.message, "ping")
                          => e.raised = "none" /\ Reply(s, i).type = "pong"
                       /\ IsText(e.message, "config")
                          => e.raised = "none" /\ Reply(s, i).type = "config_ack"
                       /\ (IsText(e.message, "frame") /\ e.message.data \in Images)
                          => \/ e.raised \in Models
                             \/ e.raised = "none" /\ Reply(s, i).type = "detection"
                       /\ e.raised = "none" => StillOpenAfter(s, i)
    /\ (phase = "ready" /\ vision_processor = "loaded")
       => hand_tracker = "loaded" /\ yolo_detector = "loaded"
          /\ pose_estimator = "loaded"

\* One session was ended by a malformed envelope; after that another one
\* got the detection of its frame from the loaded models and is still Open.
C11_Witness ==
    \E s, t \in Sessions :
        /\ s # t
        /\ state[s] = "Faulted" /\ log[s][Len(log[s])].raised = "envelope"
        /\ state[t] = "Open"
        /\ hand_tracker = "loaded"
        /\ \E i \in Entries(t) :
              /\ s \in log[t][i].gone
              /\ IsText(log[t][i].message, "frame")
              /\ log[t][i].replies = 1
              /\ Reply(t, i).hands # << >>

\* A JSON list, and a JSON object-or-null.
IsList(v) == DOMAIN v = 1..Len(v)
IsOptional(v) == v = None \/ (Len(v) = 1 /\ DOMAIN v[1] \subseteq STRING)

\* C12: every detection message has type "detection", the timestamp of the
\* frame that caused it, and all of hands, objects (lists), pose and control
\* (object or null); objects is [] when the frame does not request
\* detectObjects and pose is null when it does not request detectPose.
C12_DetectionSchema ==
    \A s \in Sessions :
        /\ \A i \in Entries(s) :
              LET e == log[s][i]
              IN  (IsText(e.message, "frame") /\ e.replies > 0)
                  => LET body == Reply(s, i)
                     IN  /\ e.replies = 1
                         /\ body.type = "detection"
                         /\ body.timestamp = e.message.timestamp
                         /\ ~Truthy(e.message.detectObjects) => body.objects = << >>
                         /\ ~Truthy(e.message.detectPose) => body.pose = None
        /\ \A k \in 1..Len(outbox[s]) :
              LET body == outbox[s][k]
              IN  body.type = "detection"
                  => /\ {"timestamp", "hands", "objects", "pose", "control"}
                           \subseteq DOMAIN body
                     /\ IsList(body.hands) /\ IsList(body.objects)
                     /\ IsOptional(body.pose) /\ IsOptional(body.control)
                     /\ \E i \in Entries(s) :
                           IsText(log[s][i].message, "frame") /\ log[s][i].first + 1 = k

\* With all models loaded one session got a detection with objects and a
\* pose, which its frame asked for, and one with neither for a frame that
\* shows a person and asked for none.
C12_Witness ==
    \E s \in Sessions : \E i, j \in Entries(s) :
        /\ yolo_detector = "loaded" /\ pose_estimator = "loaded"
        /\ log[s][i].message = Frame("scene", Some(2), "true", "true")
        /\ log[s][i].replies = 1
        /\ Reply(s, i).objects # << >> /\ Reply(s, i).pose # None
        /\ Reply(s, i).timestamp = Some(2)
        /\ log[s][j].message = Frame("hand", Some(1), "absent", "absent")
        /\ log[s][j].replies = 1
        /\ Reply(s, j).objects = << >> /\ Reply(s, j).pose = None
        /\ Reply(s, j).timestamp = Some(1)

\* A frame with an image payload that decoded and whose detect calls all
\* returned.
Processed(e) ==
    IsText(e.message, "frame") /\ e.message.data \in Images /\ e.raised = "none"

\* C13: every frame with a non-empty payload taken by an Open session,
\* whose decode and model invocations all succeed, leads to exactly one
\* detection message on that session, sent before any answer to a later
\* message of the session.
C13_ProcessedFrameYieldsOneDetection ==
    \A s \in Sessions :
        /\ \A i \in Entries(s) :
              LET e == log[s][i]
              IN  Processed(e)
                  => /\ e.replies = 1
                     /\ e.first < Len(outbox[s])
                     /\ Reply(s, i).type = "detection"
                     /\ \A j \in Entries(s) :
                           (j > i /\ log[s][j].replies > 0) => log[s][j].first > e.first
        /\ Cardinality({k \in 1..Len(outbox[s]) : outbox[s][k].type = "detection"})
             = Cardinality({i \in Entries(s) : Processed(log[s][i])})

\* A frame without a hand in it was processed and answered, and a ping
\* after it was answered later.
C13_Witness ==
    \E s \in Sessions : \E i, j \in Entries(s) :
        /\ hand_tracker = "loaded"
        /\ Processed(log[s][i])
        /\ log[s][i].message.data = "blank"
        /\ Reply(s, i).type = "detection"
        /\ j > i
        /\ IsText(log[s][j].message, "ping")
        /\ log[s][j].first > log[s][i].first

\* ------------------------------------------------- calculate_control_signal
\* The landmark coordinates studied, in tenths.
Coordinates == {0, 5, 10}
Depths == (0 - MaxDepth)..MaxDepth
LandmarkCounts == {1, FullHand - 1, FullHand, FullHand + 1}

\* HandTracker.detect gives every landmark as [lm.x, lm.y, lm.z].
Points == {<<x, y, z>> : x \in Coordinates, y \in Coordinates, z \in Depths}

\* A hand of n landmarks that alternate between the points a and b.
HandOf(n, a, b) ==
    [landmarks |-> [i \in 1..n |-> IF i % 2 = 1 THEN a ELSE b]]

InitControl ==
    /\ Imported
    /\ use_cuda = FALSE
    /\ \E n \in LandmarkCounts : \E a, b \in Points :
          probe = [hand |-> HandOf(n, a, b), control |-> None]

\* control = calculate_control_signal(hand, image.shape)
Derive ==
    /\ probe.hand.landmarks # << >>
    /\ probe.control = None
    /\ probe' = [probe EXCEPT !.control = Some(calculate_control_signal(probe.hand))]
    /\ UNCHANGED <<globals, sessions, lifecycle>>

NextControl == Derive

SpecControl == InitControl /\ [][NextControl]_vars

Derived == probe.control # None
Count == Len(probe.hand.landmarks)
DepthSum == SumOf(probe.hand.landmarks, 3)
Signal == probe.control[1]

\* C14: for a hand of exactly 21 landmarks, an average depth <= -0.5 gives
\* thrust exactly 1 and BOOST, an average depth >= 0.5 gives thrust exactly
\* 0 and IDLE, the action is BOOST exactly when the thrust is above 0.7, and
\* a hand centred at (0.5, 0.5) with depth 0 gives direction (0, 0), thrust
\* 0.5 and IDLE; the thrust always lies in [0, 1].
C14_ThrustClampedAndBoostAboveThreshold ==
    Derived =>
        LET den == Signal.thrust[2]
            thrust == Signal.thrust[1]
        IN  /\ den = 10 * Count
            /\ 0 <= thrust /\ thrust <= den
            /\ Count = FullHand =>
                  /\ DepthSum <= (0 - 5) * Count
                     => thrust = den /\ Signal.action = "BOOST"
                  /\ DepthSum >= 5 * Count
                     => thrust = 0 /\ Signal.action = "IDLE"
                  /\ Signal.action = "BOOST" <=> 10 * thrust > 7 * den
                  /\ Signal.action \in {"BOOST", "IDLE"}
                  /\ ( /\ SumOf(probe.hand.landmarks, 1) = 5 * Count
                       /\ SumOf(probe.hand.landmarks, 2) = 5 * Count
                       /\ DepthSum = 0 )
                     => /\ Signal.direction.x[1] = 0
                        /\ Signal.direction.y[1] = 0
                        /\ 2 * thrust = den
                        /\ Signal.action = "IDLE"

\* The signal of a full hand nearer than the depth at which the thrust
\* saturates has been derived.
C14_Witness ==
    /\ Derived
    /\ Count = FullHand
    /\ DepthSum < (0 - 5) * Count
    /\ Signal.action = "BOOST"

\* C15: a hand with fewer than 21 landmarks gives IDLE whatever its thrust.
C15_PartialHandIsIdle ==
    (Derived /\ Count < FullHand) => Signal.action = "IDLE"

\* The signal of a hand one landmark short of full, with a thrust above
\* 0.7, has been derived.
C15_Witness ==
    /\ Derived
    /\ Count = FullHand - 1
    /\ 10 * Signal.thrust[1] > 7 * Signal.thrust[2]

\* ----------------------------------------------------------- shutdown_event
\* The global that holds a component.
Global(c) ==
    CASE c = "vision_processor" -> vision_processor
      [] c = "hand_tracker" -> hand_tracker
      [] c = "yolo_detector" -> yolo_detector
      [] c = "pose_estimator" -> pose_estimator

\* What one cleanup() call does: freed, the underlying resource is released
\* by the call; raised, the call raises.  raises: the library call made by
\* the cleanup, if any, fails.  rel: the releases made so far.

\* CudaVisionProcessor.cleanup: torch.cuda.empty_cache() on a CUDA host.
CudaVisionProcessor_cleanup(raises, rel) ==
    [freed |-> use_cuda, raised |-> use_cuda /\ raises]

\* HandTracker.cleanup: the attribute hands is set by the constructor and
\* never removed, so every call runs self.hands.close().
HandTracker_cleanup(raises, rel) ==
    [freed |-> TRUE, raised |-> raises]

\* YOLODetector.cleanup: while the attribute model exists, del self.model
\* and, on a CUDA host, torch.cuda.empty_cache().
YOLODetector_cleanup(raises, rel) ==
    LET has_model == rel["yolo_detector"] = 0
    IN  [freed |-> has_model, raised |-> has_model /\ use_cuda /\ raises]

\* PoseEstimator.cleanup: every call runs self.pose.close().
PoseEstimator_cleanup(raises, rel) ==
    [freed |-> TRUE, raised |-> raises]

cleanup(c, raises, rel) ==
    CASE c = "vision_processor" -> CudaVisionProcessor_cleanup(raises, rel)
      [] c = "hand_tracker" -> HandTracker_cleanup(raises, rel)
      [] c = "yolo_detector" -> YOLODetector_cleanup(raises, rel)
      [] c = "pose_estimator" -> PoseEstimator_cleanup(raises, rel)

\* One cleanup() call recorded in the history.
Called(c, by, r) ==
    [component |-> c, by |-> by, raised |-> r.raised, freed |-> r.freed]

Freed(rel, c, r) ==
    IF r.freed THEN [rel EXCEPT ![c] = rel[c] + 1] ELSE rel

\* The order in which shutdown_event calls the cleanups.
ShutdownOrder == <<"vision_processor", "hand_tracker", "yolo_detector", "pose_estimator">>

\* shutdown_event from its i-th statement on: each global that is set has
\* its cleanup called; an exception of a cleanup leaves the hook.
RECURSIVE shutdown_from(_, _, _, _)
shutdown_from(i, fails, calls, rel) ==
    IF i > Len(ShutdownOrder) THEN [cleanups |-> calls, released |-> rel]
    ELSE LET c == ShutdownOrder[i]
             r == cleanup(c, c \in fails, rel)
         IN  IF Global(c) = "None" THEN shutdown_from(i + 1, fails, calls, rel)
             ELSE IF r.raised
                  THEN [cleanups |-> Append(calls, Called(c, "shutdown", r)),
                        released |-> Freed(rel, c, r)]
             ELSE shutdown_from(i + 1, fails, Append(calls, Called(c, "shutdown", r)),
                                Freed(rel, c, r))

shutdown_event(fails) == shutdown_from(1, fails, cleanups, released)

\* The server runs the shutdown hook once, when a started application stops.
Shutdown ==
    /\ phase = "ready"
    /\ \E fails \in SUBSET Components :
          LET r == shutdown_event(fails)
          IN  /\ cleanups' = r.cleanups
              /\ released' = r.released
    /\ phase' = "stopped"
    /\ UNCHANGED <<startup_raised, vision_processor, hand_tracker, yolo_detector,
                   pose_estimator, sessions, use_cuda, probe, health>>

DirectCalls == {i \in 1..Len(cleanups) : cleanups[i].by = "direct"}

\* A caller that holds a component calls its cleanup().
Cleanup(c) ==
    /\ Global(c) = "loaded"
    /\ Cardinality(DirectCalls) < MaxCleanupCalls
    /\ \E raises \in BOOLEAN :
          LET r == cleanup(c, raises, released)
          IN  /\ cleanups' = Append(cleanups, Called(c, "direct", r))
              /\ released' = Freed(released, c, r)
    /\ UNCHANGED <<globals, sessions, use_cuda, probe, health>>

\* health_check: the load flag of a model is `<global> is not None`.
health_check ==
    [status |-> "healthy",
     models_loaded |-> [hand_tracker |-> hand_tracker # "None",
                        yolo_detector |-> yolo_detector # "None",
                        pose_estimator |-> pose_estimator # "None"]]

\* GET /health, once the startup hook has been run or skipped.
Health ==
    /\ phase # "created"
    /\ health' = Some([response |-> health_check, at |-> phase])
    /\ UNCHANGED <<globals, sessions, use_cuda, cleanups, released, probe>>

InitLifecycle ==
    /\ Imported
    /\ use_cuda \in BOOLEAN
    /\ probe = NoProbe

NextLifecycle ==
    \/ Startup
    \/ Shutdown
    \/ \E c \in Components : Cleanup(c)
    \/ Health

SpecLifecycle == InitLifecycle /\ [][NextLifecycle]_vars

Adapters == {"hand_tracker", "yolo_detector", "pose_estimator"}

\* The indices of the cleanup calls that shutdown_event made.
ShutdownCalls == {i \in 1..Len(cleanups) : cleanups[i].by = "shutdown"}

\* C16: at shutdown every model adapter is released before the acceleration
\* context, the releases being made in the reverse of the startup order.
C16_ReleaseInReverseStartupOrder ==
    phase = "stopped" =>
        \A i, j \in ShutdownCalls :
            i < j => Position(cleanups[i].component) > Position(cleanups[j].component)

\* C17: when shutdown has run, every initialized component has had its
\* cleanup invoked, whether or not the cleanup of another one failed.
C17_ShutdownReleasesEveryComponent ==
    phase = "stopped" =>
        \A c \in Components :
            Global(c) = "loaded" => \E i \in ShutdownCalls : cleanups[i].component = c

\* C18: a cleanup call on a model adapter whose cleanup has already run
\* without failing does not fail and releases nothing: the state of the
\* adapter stays as the first call left it.
C18_SecondCleanupIsNoOp ==
    \A i, j \in 1..Len(cleanups) :
        ( /\ i < j
          /\ cleanups[i].component \in Adapters
          /\ cleanups[j].component = cleanups[i].component
          /\ ~cleanups[i].raised )
        => ~cleanups[j].raised /\ ~cleanups[j].freed

\* The number of times a model was invoked among the calls of one frame.
Invocations(calls, model) ==
    Cardinality({k \in 1..Len(calls) : calls[k] = model})

AllLoaded ==
    hand_tracker = "loaded" /\ yolo_detector = "loaded" /\ pose_estimator = "loaded"

\* C19: for a frame processed while all adapters are loaded, the Hand Model
\* is invoked exactly once whatever the flags, the Object Model at most once
\* and only if the frame enables object detection, the Pose Model at most
\* once and only if the frame enables pose detection; each result is in its
\* own slot of the reply: hands, objects, pose.
C19_InvocationsFollowFrameFlags ==
    AllLoaded =>
        \A s \in Sessions : \A i \in Entries(s) :
            LET e == log[s][i]
                image == e.message.data
            IN  (IsText(e.message, "frame") /\ image \in Images)
                => /\ Invocations(e.calls, "hand") = 1
                   /\ Invocations(e.calls, "yolo") <= 1
                   /\ Invocations(e.calls, "pose") <= 1
                   /\ Invocations(e.calls, "yolo") > 0 => Truthy(e.message.detectObjects)
                   /\ Invocations(e.calls, "pose") > 0 => Truthy(e.message.detectPose)
                   /\ e.raised = "none"
                      => /\ Reply(s, i).hands = HandTracker_detect(image)
                         /\ Reply(s, i).objects =
                               IF Truthy(e.message.detectObjects)
                               THEN YOLODetector_detect(image) ELSE << >>
                         /\ Reply(s, i).pose =
                               IF Truthy(e.message.detectPose)
                               THEN PoseEstimator_detect(image) ELSE None

\* With all adapters loaded, a frame that enables both optional models was
\* answered with a hand, an object and a pose, each model invoked once.
C19_Witness ==
    /\ AllLoaded
    /\ \E s \in Sessions : \E i \in Entries(s) :
          LET e == log[s][i]
          IN  /\ Processed(e)
              /\ Truthy(e.message.detectObjects) /\ Truthy(e.message.detectPose)
              /\ Invocations(e.calls, "hand") = 1
              /\ Invocations(e.calls, "yolo") = 1
              /\ Invocations(e.calls, "pose") = 1
              /\ Reply(s, i).hands # << >>
              /\ Reply(s, i).objects # << >>
              /\ Reply(s, i).pose # None

\* The detection result of one frame, from the image and flags of the frame.
ResultOf(message) ==
    LET hands == IF run_hand THEN HandTracker_detect(message.data) ELSE << >>
    IN  [type |-> "detection", timestamp |-> message.timestamp,
         hands |-> hands,
         objects |-> IF run_yolo(message) THEN YOLODetector_detect(message.data)
                     ELSE << >>,
         pose |-> IF run_pose(message) THEN PoseEstimator_detect(message.data)
                  ELSE None,
         control |-> control_of(hands), config |-> NoFlags]

\* Session t has sent a frame, taken by its handler or not yet.
SentFrame(t) ==
    \/ \E j \in Entries(t) : IsText(log[t][j].message, "frame")
    \/ \E k \in 1..Len(inbox[t]) : IsText(inbox[t][k], "frame")

IsNoOp(message) ==
    /\ message.event = "text" /\ message.json
    /\ \/ message.type \notin {"frame", "ping", "config"}
       \/ message.type = "frame" /\ message.data = NoData

\* C23: the handling of such a message sends nothing, invokes no model,
\* changes neither the state of a session nor that of an adapter, and
\* leaves the session Open with the rest of its messages to handle.
C23_UnhandledMessageIsNoOp ==
    [][\A s \in Sessions :
          (Receives(s) /\ IsNoOp(Head(inbox[s])) /\ inbox'[s] = Tail(inbox[s]))
          => /\ outbox' = outbox
             /\ state' = state /\ state'[s] = "Open"
             /\ closeCalled' = closeCalled
             /\ globals' = globals
             /\ released' = released
             /\ log'[s][Len(log'[s])].calls = << >>
             /\ log'[s][Len(log'[s])].raised = "none"]_vars

\* A session took a message without a known type and a frame without data,
\* sent nothing for them, and then answered a ping.
C23_Witness ==
    \E s \in Sessions :
        /\ Len(log[s]) = 3
        /\ log[s][1].message \in {Unknown, Untyped}
        /\ log[s][2].message = Frame(NoData, Some(1), "absent", "absent")
        /\ log[s][1].replies = 0 /\ log[s][2].replies = 0
        /\ IsText(log[s][3].message, "ping")
        /\ Len(outbox[s]) = 1 /\ outbox[s][1].type = "pong"
        /\ state[s] = "Open"

\* The load flags of the last health response.
Loaded == health[1].response.models_loaded

\* C21: once startup has run, the health endpoint reports a model as loaded
\* exactly when its adapter was initialized, and a model whose own
\* initialization did not fail is reported as loaded even when the
\* initialization of another model failed.
C21_HealthFlagsFollowOwnInit ==
    health # None =>
        \A m \in Adapters :
            /\ Loaded[m] <=> Global(m) = "loaded"
            /\ startup_raised # m => Loaded[m]

\* ------------------------------------------- sessions across shutdown_event
\* shutdown_event closes no connection and the handler loop reads no phase:
\* a handler that the host has not ended goes on taking messages.
NextStopping ==
    \/ Next
    \/ Shutdown
    \/ Health

SpecStopping == Init /\ [][NextStopping]_vars

\* The component whose detect a call of the frame branch runs.
ComponentOf(model) ==
    CASE model = "hand" -> "hand_tracker"
      [] model = "yolo" -> "yolo_detector"
      [] model = "pose" -> "pose_estimator"

\* C22: no detect call is made on an adapter after its cleanup has run, and
\* a health response given after shutdown reports no released adapter as
\* loaded.
C22_NoDetectAfterCleanup ==
    /\ [][\A s \in Sessions :
             Len(log'[s]) > Len(log[s])
             => \A model \in Models :
                   Invocations(log'[s][Len(log'[s])].calls, model) > 0
                   => released[ComponentOf(model)] = 0]_vars
    /\ [](\A m \in Adapters :
             (health # None /\ health[1].at = "stopped" /\ released[m] > 0)
             => ~Loaded[m])

====
